---- MODULE Spec2Model ----
(***************************************************************************)
(* Respiration-Controlled-Music: the four bridge scripts                   *)
(*   resp_live_play, resp_live_mod, resp_prerec_play, resp_prerec_mod      *)
(* as one state machine.  A run is one process: the main thread runs the   *)
(* Qt event loop, whose 20 ms timer calls RespVisualiser.update (the       *)
(* consumer); a daemon thread runs bridge_worker (the producer), which     *)
(* filters samples, calibrates, maps and sends MIDI events, and puts every *)
(* filtered value on vis_queue.                                            *)
(*                                                                         *)
(* Amplitudes are fixed-point integers in millivolts (1000 = 1.0 V); the   *)
(* filter coefficients are scaled the same way, a[1] = 1000 standing for   *)
(* a0 = 1.0.  Time is in whole seconds.                                    *)
(***************************************************************************)
EXTENDS Integers, Sequences, FiniteSets, TLC

VARIABLES
    mode,                  \* which script runs (cli.py subcommand)
    args,                  \* the parsed command line
    env,                   \* what the machine offers: LSL streams, MIDI port
    data,                  \* the rows of the prerecorded CSV file
    alive,                 \* the process is running
    stop_flag,             \* threading.Event of resp_live_play
    wpc,                   \* bridge_worker: start, loop, play, done, error, killed
    werr,                  \* the exception that ended bridge_worker
    now,                   \* time.time()
    start_time,
    calibrating,
    calibration_msg_shown,
    amp_min,
    amp_max,
    prev_note,
    filt,                  \* the RespFilter object: b, a, z
    filtered_data,
    idx,                   \* position of the playback loop in filtered_data
    idle,                  \* consecutive empty polls of the inlet
    vis_queue,             \* queue.Queue(maxsize)
    buffer,                \* RespVisualiser.buffer, deque(maxlen)
    cpc,                   \* RespVisualiser.update: check, get, error
    events,                \* every message sent to the MIDI port, in order
    log,                   \* the logging.info / logging.error notices
    produced,              \* every filtered value the worker computed
    consumed,              \* every value update() took off the queue
    mapped,                \* every value the mapper returned (note or CC value)
    source_acquired,       \* StreamInlet opened / CSV loaded
    device_open            \* mido.open_output succeeded

vars == <<mode, args, env, data, alive, stop_flag, wpc, werr, now, start_time,
          calibrating, calibration_msg_shown, amp_min, amp_max, prev_note, filt,
          filtered_data, idx, idle, vis_queue, buffer, cpc, events, log,
          produced, consumed, mapped, source_acquired, device_open>>

----------------------------------------------------------------------------
(* Bounds of the model *)

\* samples a run processes (live: samples pulled; prerecorded: rows of the file)
MaxLen == 5
\* queue.Queue(maxsize=2000), scaled down so that a run can fill it
QueueMaxsize == 2
\* deque(maxlen=20000), scaled down so that a run can overflow it
BufferLen == 3
\* seconds the wall clock advances in one step
TickSeconds == 15
\* the wall clock stops advancing here
MaxTime == 45
\* consecutive empty polls that are told apart
MaxIdle == 1

(* Program constants *)

calibration_duration == 30
DefaultNoteLow == 40
DefaultNoteHigh == 80
DefaultVelocity == 100
DefaultCC == 115
DefaultChannelMidi == 0
DefaultSrate == 100
CCMax == 127

\* raw sensor readings a sample can carry: 0.0 V and 1.0 V
RawValues == {0, 1000}

None == <<>>
Some(v) == <<v>>
Val(o) == o[1]

LiveModes == {"live_play", "live_mod"}
PrerecModes == {"prerec_play", "prerec_mod"}
NoteModes == {"live_play", "prerec_play"}
Modes == LiveModes \cup PrerecModes

Min2(a, b) == IF a <= b THEN a ELSE b
Max2(a, b) == IF a >= b THEN a ELSE b

RECURSIVE SeqMin(_)
SeqMin(s) == IF Len(s) = 1 THEN s[1] ELSE Min2(s[1], SeqMin(Tail(s)))

RECURSIVE SeqMax(_)
SeqMax(s) == IF Len(s) = 1 THEN s[1] ELSE Max2(s[1], SeqMax(Tail(s)))

\* p / q rounded to the nearest integer, q > 0: the rounding of one arithmetic step
RoundDiv(p, q) == (2 * p + q) \div (2 * q)

\* rounding with ties upwards, floor(p / q + 1/2)
RoundHalfUp(p, q) == (2 * p + q) \div (2 * q)

\* round(): np.float64.__round__ rounds a tie to the even neighbour
RoundHalfEven(p, q) ==
    LET f == p \div q
        r == p % q
    IN  IF 2 * r < q THEN f
        ELSE IF 2 * r > q THEN f + 1
        ELSE IF f % 2 = 0 THEN f ELSE f + 1

Clip(v, lo, hi) == IF v < lo THEN lo ELSE IF v > hi THEN hi ELSE v

----------------------------------------------------------------------------
(* RespFilter *)

\* butter(2, norm) accepts 0 < norm < 1 only and raises ValueError otherwise
ValidWn(fs, cutoff) == fs > 0 /\ cutoff > 0 /\ 2 * cutoff < fs

\* butter(2, 0.5, btype="low"): b = [0.293, 0.586, 0.293], a = [1, 0, 0.172]
\* (the runs of the model use cutoff = fs / 4, the one design tabulated here)
Butter(fs, cutoff) ==
    CASE 4 * cutoff = fs -> [b |-> <<293, 586, 293>>, a |-> <<1000, 0, 172>>]

\* RespFilter.__init__ keeping zi, the steady state of a unit step, as its state
RespFilterInit_SteadyState(fs, cutoff) ==
    LET c == Butter(fs, cutoff)
    IN  [b |-> c.b, a |-> c.a, z |-> <<c.a[1] - c.b[1], c.b[3] - c.a[3]>>]

\* RespFilter.__init__: the coefficients, and the state zi * 0.0
RespFilterInit(fs, cutoff) ==
    LET c == Butter(fs, cutoff)
    IN  [b |-> c.b, a |-> c.a, z |-> <<0, 0>>]

\* RespFilter.add: lfilter on one sample (direct form II transposed);
\* the new filter object and the output y
RespFilterAdd(f, x) ==
    LET y  == RoundDiv(f.b[1] * x, f.a[1]) + f.z[1]
        z1 == RoundDiv(f.b[2] * x - f.a[2] * y, f.a[1]) + f.z[2]
        z2 == RoundDiv(f.b[3] * x - f.a[3] * y, f.a[1])
    IN  [filt |-> [f EXCEPT !.z = <<z1, z2>>], y |-> y]

\* [filt.add(float(x)) for x in data]: the outputs, from filter f on
RECURSIVE FilterAll(_, _)
FilterAll(f, xs) ==
    IF xs = <<>> THEN <<>>
    ELSE LET r == RespFilterAdd(f, Head(xs))
         IN  <<r.y>> \o FilterAll(r.filt, Tail(xs))

----------------------------------------------------------------------------
(* The mappers *)

\* map_amp_to_note interpolating from the top of the note range downwards
map_amp_to_note_Inverted(x, xmin, xmax, note_min, note_max) ==
    IF xmax <= xmin THEN note_min
    ELSE LET den == xmax - xmin
             num == Clip(x - xmin, 0, den)
         IN  RoundHalfEven(note_max * den - num * (note_max - note_min), den)

\* map_amp_to_note falling back to the top of the note range
map_amp_to_note_FallbackHigh(x, xmin, xmax, note_min, note_max) ==
    IF xmax <= xmin THEN note_max
    ELSE LET den == xmax - xmin
             num == Clip(x - xmin, 0, den)
         IN  RoundHalfEven(note_min * den + num * (note_max - note_min), den)

map_amp_to_note(x, xmin, xmax, note_min, note_max) ==
    IF xmax <= xmin THEN note_min
    ELSE LET den == xmax - xmin
             num == Clip(x - xmin, 0, den)
         IN  RoundHalfEven(note_min * den + num * (note_max - note_min), den)

map_amp_to_cc(x, xmin, xmax) ==
    IF xmax <= xmin THEN 0
    ELSE LET den == xmax - xmin
             num == Clip(x - xmin, 0, den)
         IN  RoundHalfEven(num * CCMax, den)

----------------------------------------------------------------------------
(* MidiOut *)

NoteOn(note, velocity) == [type |-> "note_on", note |-> note, velocity |-> velocity]
NoteOff(note) == [type |-> "note_off", note |-> note]
ControlChange(cc, value, channel) ==
    [type |-> "control_change", control |-> cc, value |-> value, channel |-> channel]

\* send_cc that skips a value equal to the one sent last
send_cc_Dedup(evs, cc, value, channel) ==
    IF evs # <<>> /\ evs[Len(evs)].value = value THEN evs
    ELSE Append(evs, ControlChange(cc, value, channel))

\* MidiOut.send_cc: one control_change message goes to the port
send_cc(evs, cc, value, channel) == Append(evs, ControlChange(cc, value, channel))

\* MidiOut.__init__ that does not re-raise: a missing port goes unnoticed
MidiOutOpens_Always(e) == TRUE

\* MidiOut.__init__: mido.open_output succeeds; if it does not, the constructor
\* raises RuntimeError
MidiOutOpens(e) == e.port_ok

\* NoteStep with the two messages of a note change swapped
NoteStep_OnBeforeOff(prev, note, velocity) ==
    IF prev = None
    THEN [prev_note |-> Some(note), out |-> <<NoteOn(note, velocity)>>]
    ELSE IF note # Val(prev)
    THEN [prev_note |-> Some(note),
          out |-> <<NoteOn(note, velocity), NoteOff(Val(prev))>>]
    ELSE [prev_note |-> prev, out |-> <<>>]

\* NoteStep without the note_off of a note change
NoteStep_NoOff(prev, note, velocity) ==
    IF prev = None \/ note # Val(prev)
    THEN [prev_note |-> Some(note), out |-> <<NoteOn(note, velocity)>>]
    ELSE [prev_note |-> prev, out |-> <<>>]

\* NoteStep comparing with `elif True`: an unchanged note is switched off and on
NoteStep_Retrigger(prev, note, velocity) ==
    IF prev = None
    THEN [prev_note |-> Some(note), out |-> <<NoteOn(note, velocity)>>]
    ELSE [prev_note |-> Some(note),
          out |-> <<NoteOff(Val(prev)), NoteOn(note, velocity)>>]

\* the note branch of the loop body: the messages sent for mapped note `note`
\* when prev_note is `prev`, and the new prev_note
NoteStep(prev, note, velocity) ==
    IF prev = None
    THEN [prev_note |-> Some(note), out |-> <<NoteOn(note, velocity)>>]
    ELSE IF note # Val(prev)
    THEN [prev_note |-> Some(note),
          out |-> <<NoteOff(Val(prev)), NoteOn(note, velocity)>>]
    ELSE [prev_note |-> prev, out |-> <<>>]

----------------------------------------------------------------------------
(* Configurations *)

\* the command line the others are variations of: the defaults of cli.py for
\* the subcommand, with the cutoff at a quarter of the sampling rate
BaseArgs(m) ==
    (IF m \in NoteModes
     THEN [note_low |-> DefaultNoteLow, note_high |-> DefaultNoteHigh,
           velocity |-> DefaultVelocity]
     ELSE [cc |-> DefaultCC, channel_midi |-> DefaultChannelMidi])
    @@ (IF m \in PrerecModes
        THEN [sampling_rate |-> 1000, cutoff |-> 250]
        ELSE [cutoff |-> 25])

DefaultEnv == [streams |-> 1, nominal_srate |-> DefaultSrate, port_ok |-> TRUE]

\* --note-low / --note-high: two proper ranges, an empty one and a reversed one
NoteRanges == {<<40, 41>>, <<40, 80>>, <<40, 40>>, <<80, 40>>}

\* the command lines of the model: the base one with at most one option changed
ArgsFor(m) ==
    LET d == BaseArgs(m)
    IN  {d}
        \cup (IF m \in NoteModes
              THEN {[d EXCEPT !.note_low = r[1], !.note_high = r[2]] : r \in NoteRanges}
              ELSE {})
        \cup {[d EXCEPT !.cutoff = 2 * d.cutoff]}
        \cup (IF m \in PrerecModes THEN {[d EXCEPT !.sampling_rate = 0]} ELSE {})

\* the machines of the model: the default one, one with no OpenSignals stream,
\* one whose stream reports no nominal rate, one without the MIDI port
EnvFor(m) ==
    {DefaultEnv, [DefaultEnv EXCEPT !.port_ok = FALSE]}
    \cup (IF m \in LiveModes
          THEN {[DefaultEnv EXCEPT !.streams = 0],
                [DefaultEnv EXCEPT !.nominal_srate = 0]}
          ELSE {})

\* fs: args.sampling_rate, or `info.nominal_srate() or 100.0`
SamplingRate ==
    IF mode \in PrerecModes THEN args.sampling_rate
    ELSE IF env.nominal_srate = 0 THEN DefaultSrate ELSE env.nominal_srate

RECURSIVE SeqsUpTo(_, _)
SeqsUpTo(S, n) ==
    IF n = 0 THEN {<<>>}
    ELSE LET shorter == SeqsUpTo(S, n - 1)
         IN  shorter \cup {Append(s, v) : s \in {t \in shorter : Len(t) = n - 1}, v \in S}

DataFor(m) == IF m \in PrerecModes THEN SeqsUpTo(RawValues, MaxLen) ELSE {<<>>}

----------------------------------------------------------------------------
Init ==
    /\ mode \in Modes
    /\ args \in ArgsFor(mode)
    /\ env \in EnvFor(mode)
    /\ (args = BaseArgs(mode) \/ env = DefaultEnv)
    /\ data \in DataFor(mode)
    /\ alive = TRUE
    /\ stop_flag = FALSE
    /\ wpc = "start"
    /\ werr = "none"
    /\ now = 0
    /\ start_time = 0
    /\ calibrating = TRUE
    /\ calibration_msg_shown = FALSE
    /\ amp_min = None
    /\ amp_max = None
    /\ prev_note = None
    /\ filt = None
    /\ filtered_data = <<>>
    /\ idx = 1
    /\ idle = 0
    /\ vis_queue = <<>>
    /\ buffer = <<>>
    /\ cpc = "check"
    /\ events = <<>>
    /\ log = <<>>
    /\ produced = <<>>
    /\ consumed = <<>>
    /\ mapped = <<>>
    /\ source_acquired = FALSE
    /\ device_open = FALSE

----------------------------------------------------------------------------
(* bridge_worker *)

\* a queue constructed without maxsize: put_nowait never raises
QueueFull_Unbounded(q) == FALSE

\* put_nowait raises queue.Full when the queue holds maxsize items
QueueFull(q) == Len(q) >= QueueMaxsize

\* Calibrate with the window test `>=` turned around: it ends on the first sample
Calibrate_NoWindow(v, t) ==
    LET lo == IF amp_min = None THEN v ELSE Min2(Val(amp_min), v)
        hi == IF amp_min = None THEN v ELSE Max2(Val(amp_max), v)
        over == t - start_time <= calibration_duration
    IN  [amp_min |-> Some(lo), amp_max |-> Some(hi),
         calibrating |-> ~over,
         log |-> (IF calibration_msg_shown THEN <<>> ELSE <<<<"calibrating">>>>)
                 \o (IF over THEN <<<<"complete", lo, hi>>>> ELSE <<>>)]

\* Calibrate on a range that starts as 0.0, 0.0 instead of None, None
Calibrate_InitZero(v, t) ==
    LET lo == IF amp_min = None THEN Min2(0, v) ELSE Min2(Val(amp_min), v)
        hi == IF amp_min = None THEN Max2(0, v) ELSE Max2(Val(amp_max), v)
        over == t - start_time >= calibration_duration
    IN  [amp_min |-> Some(lo), amp_max |-> Some(hi),
         calibrating |-> ~over,
         log |-> (IF calibration_msg_shown THEN <<>> ELSE <<<<"calibrating">>>>)
                 \o (IF over THEN <<<<"complete", lo, hi>>>> ELSE <<>>)]

\* Calibrate without the test of calibration_msg_shown: the notice on every pass
Calibrate_NoticeEveryPass(v, t) ==
    LET lo == IF amp_min = None THEN v ELSE Min2(Val(amp_min), v)
        hi == IF amp_min = None THEN v ELSE Max2(Val(amp_max), v)
        over == t - start_time >= calibration_duration
    IN  [amp_min |-> Some(lo), amp_max |-> Some(hi),
         calibrating |-> ~over,
         log |-> <<<<"calibrating">>>>
                 \o (IF over THEN <<<<"complete", lo, hi>>>> ELSE <<>>)]

\* Calibrate with min and max exchanged in the update of the range
Calibrate_Swapped(v, t) ==
    LET lo == IF amp_min = None THEN v ELSE Max2(Val(amp_min), v)
        hi == IF amp_min = None THEN v ELSE Min2(Val(amp_max), v)
        over == t - start_time >= calibration_duration
    IN  [amp_min |-> Some(lo), amp_max |-> Some(hi),
         calibrating |-> ~over,
         log |-> (IF calibration_msg_shown THEN <<>> ELSE <<<<"calibrating">>>>)
                 \o (IF over THEN <<<<"complete", lo, hi>>>> ELSE <<>>)]

\* the calibration branch of the live loop body, on filtered value v read at
\* time t: the notice, the running min/max, the end of the window
Calibrate(v, t) ==
    LET lo == IF amp_min = None THEN v ELSE Min2(Val(amp_min), v)
        hi == IF amp_min = None THEN v ELSE Max2(Val(amp_max), v)
        over == t - start_time >= calibration_duration
    IN  [amp_min |-> Some(lo), amp_max |-> Some(hi),
         calibrating |-> ~over,
         log |-> (IF calibration_msg_shown THEN <<>> ELSE <<<<"calibrating">>>>)
                 \o (IF over THEN <<<<"complete", lo, hi>>>> ELSE <<>>)]

\* the calibration branch entered on every pass, without `if calibrating:`
Observe_NoGuard(v, t) == Calibrate(v, t)

\* `if calibrating:` and the branch under it: what a pass of the live loop
\* makes of the range and of the flag, on filtered value v read at time t
Observe(v, t) ==
    IF calibrating THEN Calibrate(v, t)
    ELSE [amp_min |-> amp_min, amp_max |-> amp_max, calibrating |-> FALSE,
          log |-> <<>>]

\* resp_live_play / resp_live_mod, from the entry of bridge_worker to its loop
LiveStart ==
    /\ alive /\ mode \in LiveModes /\ wpc = "start"
    /\ start_time' = now
    /\ LET fs == SamplingRate
       IN  IF env.streams = 0
           THEN /\ log' = Append(log, <<"no_streams">>)
                /\ wpc' = "done"
                /\ UNCHANGED <<werr, filt, source_acquired, device_open>>
           ELSE /\ source_acquired' = TRUE
                /\ log' = log
                /\ IF ~ValidWn(fs, args.cutoff)
                   THEN /\ wpc' = "error" /\ werr' = "ValueError"
                        /\ UNCHANGED <<filt, device_open>>
                   ELSE /\ filt' = Some(RespFilterInit(fs, args.cutoff))
                        /\ IF ~MidiOutOpens(env)
                           THEN /\ wpc' = "error" /\ werr' = "RuntimeError"
                                /\ UNCHANGED device_open
                           ELSE /\ wpc' = "loop" /\ device_open' = TRUE
                                /\ UNCHANGED werr
    /\ UNCHANGED <<mapped, mode, args, env, data, alive, stop_flag, now, calibrating,
                   calibration_msg_shown, amp_min, amp_max, prev_note,
                   filtered_data, idx, idle, vis_queue, buffer, cpc, events,
                   produced, consumed>>

\* an empty poll taken for a failure of the source: the worker gives up
LivePollEmpty_GiveUp ==
    /\ alive /\ mode \in LiveModes /\ wpc = "loop"
    /\ idle' = Min2(idle + 1, MaxIdle)
    /\ wpc' = "error" /\ werr' = "RuntimeError"
    /\ UNCHANGED <<mapped, mode, args, env, data, alive, stop_flag, now,
                   start_time, calibrating, calibration_msg_shown, amp_min,
                   amp_max, prev_note, filt, filtered_data, idx, vis_queue,
                   buffer, cpc, events, log, produced, consumed,
                   source_acquired, device_open>>

\* pull_sample returned None: sleep (resp_live_play) or spin (resp_live_mod), retry
LivePollEmpty ==
    /\ alive /\ mode \in LiveModes /\ wpc = "loop"
    /\ idle' = Min2(idle + 1, MaxIdle)
    /\ UNCHANGED <<mapped, mode, args, env, data, alive, stop_flag, wpc, werr, now,
                   start_time, calibrating, calibration_msg_shown, amp_min,
                   amp_max, prev_note, filt, filtered_data, idx, vis_queue,
                   buffer, cpc, events, log, produced, consumed,
                   source_acquired, device_open>>

\* resp_live_play: one pass of the loop body on a sample whose channel reads raw
LivePlaySample(raw) ==
    /\ alive /\ mode = "live_play" /\ wpc = "loop"
    /\ Len(produced) < MaxLen
    /\ LET r == RespFilterAdd(Val(filt), raw)
           filtered == r.y
           cal == Observe(filtered, now)
           calibrating2 == cal.calibrating
           lo == cal.amp_min
           hi == cal.amp_max
           prev == IF calibrating /\ ~cal.calibrating THEN None ELSE prev_note
           note == map_amp_to_note(filtered, Val(lo), Val(hi),
                                   args.note_low, args.note_high)
           step == NoteStep(prev, note, args.velocity)
       IN  /\ filt' = Some(r.filt)
           /\ produced' = Append(produced, filtered)
           /\ idle' = 0
           /\ calibrating' = calibrating2
           /\ amp_min' = lo
           /\ amp_max' = hi
           /\ calibration_msg_shown' = (calibrating \/ calibration_msg_shown)
           /\ log' = log \o cal.log
           /\ IF QueueFull(vis_queue)
              THEN /\ wpc' = "error" /\ werr' = "Full"
                   /\ prev_note' = prev
                   /\ UNCHANGED <<vis_queue, events, mapped>>
              ELSE /\ vis_queue' = Append(vis_queue, filtered)
                   /\ IF calibrating2
                      THEN /\ prev_note' = prev
                           /\ UNCHANGED <<events, mapped>>
                      ELSE /\ mapped' = Append(mapped, note)
                           /\ prev_note' = step.prev_note
                           /\ events' = events \o step.out
                   /\ UNCHANGED <<wpc, werr>>
    /\ UNCHANGED <<mode, args, env, data, alive, stop_flag, now, start_time,
                   filtered_data, idx, buffer, cpc, consumed, source_acquired,
                   device_open>>

\* resp_live_mod: one pass of the loop body on a sample whose channel reads raw
LiveModSample(raw) ==
    /\ alive /\ mode = "live_mod" /\ wpc = "loop"
    /\ Len(produced) < MaxLen
    /\ LET r == RespFilterAdd(Val(filt), raw)
           filtered == r.y
           cal == Observe(filtered, now)
           cc_value == map_amp_to_cc(filtered, Val(amp_min), Val(amp_max))
       IN  /\ filt' = Some(r.filt)
           /\ produced' = Append(produced, filtered)
           /\ idle' = 0
           /\ IF QueueFull(vis_queue)
              THEN /\ wpc' = "error" /\ werr' = "Full"
                   /\ UNCHANGED <<vis_queue, events, mapped, calibrating,
                                  amp_min, amp_max, calibration_msg_shown, log>>
              ELSE /\ vis_queue' = Append(vis_queue, filtered)
                   /\ UNCHANGED <<wpc, werr>>
                   /\ calibrating' = cal.calibrating
                   /\ amp_min' = cal.amp_min
                   /\ amp_max' = cal.amp_max
                   /\ calibration_msg_shown' = (calibrating \/ calibration_msg_shown)
                   /\ log' = log \o cal.log
                   /\ IF calibrating
                      THEN UNCHANGED <<events, mapped>>
                      ELSE /\ mapped' = Append(mapped, cc_value)
                           /\ events' = send_cc(events, args.cc, cc_value,
                                                args.channel_midi)
    /\ UNCHANGED <<mode, args, env, data, alive, stop_flag, now, start_time,
                   prev_note, filtered_data, idx, buffer, cpc, consumed,
                   source_acquired, device_open>>

\* the range taken from the first value of the sequence alone
BatchRange_First(fd) == [amp_min |-> fd[1], amp_max |-> fd[1]]

\* amp_min = np.min(filtered_data), amp_max = np.max(filtered_data)
BatchRange(fd) == [amp_min |-> SeqMin(fd), amp_max |-> SeqMax(fd)]

\* resp_prerec_play / resp_prerec_mod, from the entry of bridge_worker to the
\* playback loop: load, construct, filter the whole file, calibrate
PrerecStart ==
    /\ alive /\ mode \in PrerecModes /\ wpc = "start"
    /\ source_acquired' = TRUE
    /\ IF args.sampling_rate = 0
       THEN /\ wpc' = "error" /\ werr' = "ZeroDivisionError"
            /\ UNCHANGED <<filt, device_open, log, filtered_data, produced,
                           amp_min, amp_max>>
       ELSE IF ~ValidWn(args.sampling_rate, args.cutoff)
       THEN /\ wpc' = "error" /\ werr' = "ValueError"
            /\ UNCHANGED <<filt, device_open, log, filtered_data, produced,
                           amp_min, amp_max>>
       ELSE IF ~MidiOutOpens(env)
       THEN /\ wpc' = "error" /\ werr' = "RuntimeError"
            /\ filt' = Some(RespFilterInit(args.sampling_rate, args.cutoff))
            /\ UNCHANGED <<device_open, log, filtered_data, produced,
                           amp_min, amp_max>>
       ELSE IF Len(data) = 1
       THEN \* loadtxt gave a 0-d array, which cannot be iterated
            /\ wpc' = "error" /\ werr' = "TypeError"
            /\ filt' = Some(RespFilterInit(args.sampling_rate, args.cutoff))
            /\ device_open' = TRUE
            /\ log' = Append(log, <<"calibrating">>)
            /\ UNCHANGED <<filtered_data, produced, amp_min, amp_max>>
       ELSE IF Len(data) = 0
       THEN \* np.min of an empty array
            /\ wpc' = "error" /\ werr' = "ValueError"
            /\ filt' = Some(RespFilterInit(args.sampling_rate, args.cutoff))
            /\ device_open' = TRUE
            /\ log' = Append(log, <<"calibrating">>)
            /\ UNCHANGED <<filtered_data, produced, amp_min, amp_max>>
       ELSE LET f0 == RespFilterInit(args.sampling_rate, args.cutoff)
                fd == FilterAll(f0, data)
            IN  /\ filt' = Some(f0)
                /\ device_open' = TRUE
                /\ filtered_data' = fd
                /\ produced' = fd
                /\ amp_min' = Some(BatchRange(fd).amp_min)
                /\ amp_max' = Some(BatchRange(fd).amp_max)
                /\ log' = log \o << <<"calibrating">>,
                                    <<"complete", BatchRange(fd).amp_min,
                                      BatchRange(fd).amp_max>> >>
                /\ wpc' = "play"
                /\ UNCHANGED werr
    /\ UNCHANGED <<mapped, mode, args, env, data, alive, stop_flag, now, start_time,
                   calibrating, calibration_msg_shown, prev_note, idx, idle,
                   vis_queue, buffer, cpc, events, consumed>>

\* resp_prerec_play: one pass of the playback loop; the function returns after
\* the last one
PrerecPlayStep ==
    /\ alive /\ mode = "prerec_play" /\ wpc = "play"
    /\ LET filtered == filtered_data[idx]
           note == map_amp_to_note(filtered, Val(amp_min), Val(amp_max),
                                   args.note_low, args.note_high)
           step == NoteStep(prev_note, note, args.velocity)
       IN  IF QueueFull(vis_queue)
           THEN /\ wpc' = "error" /\ werr' = "Full"
                /\ UNCHANGED <<vis_queue, events, mapped, prev_note, idx>>
           ELSE /\ vis_queue' = Append(vis_queue, filtered)
                /\ mapped' = Append(mapped, note)
                /\ events' = events \o step.out
                /\ prev_note' = step.prev_note
                /\ idx' = idx + 1
                /\ wpc' = IF idx = Len(filtered_data) THEN "done" ELSE "play"
                /\ UNCHANGED werr
    /\ UNCHANGED <<mode, args, env, data, alive, stop_flag, now, start_time,
                   calibrating, calibration_msg_shown, amp_min, amp_max, filt,
                   filtered_data, idle, buffer, cpc, log, produced, consumed,
                   source_acquired, device_open>>

\* resp_prerec_mod: one pass of the playback loop; the function returns after
\* the last one
PrerecModStep ==
    /\ alive /\ mode = "prerec_mod" /\ wpc = "play"
    /\ LET filtered == filtered_data[idx]
           cc_value == map_amp_to_cc(filtered, Val(amp_min), Val(amp_max))
       IN  IF QueueFull(vis_queue)
           THEN /\ wpc' = "error" /\ werr' = "Full"
                /\ UNCHANGED <<vis_queue, events, mapped, idx>>
           ELSE /\ vis_queue' = Append(vis_queue, filtered)
                /\ mapped' = Append(mapped, cc_value)
                /\ events' = send_cc(events, args.cc, cc_value, args.channel_midi)
                /\ idx' = idx + 1
                /\ wpc' = IF idx = Len(filtered_data) THEN "done" ELSE "play"
                /\ UNCHANGED werr
    /\ UNCHANGED <<mode, args, env, data, alive, stop_flag, now, start_time,
                   calibrating, calibration_msg_shown, amp_min, amp_max,
                   prev_note, filt, filtered_data, idle, buffer, cpc, log,
                   produced, consumed, source_acquired, device_open>>

----------------------------------------------------------------------------
(* RespVisualiser.update, called by the Qt timer in the main thread *)

\* deque(maxlen).append: the oldest item is dropped when the deque is full
DequeAppend(d, v) ==
    IF Len(d) >= BufferLen THEN Append(Tail(d), v) ELSE Append(d, v)

\* update() that goes to get_nowait without the test of queue.empty()
UpdateCheck_NoTest ==
    /\ alive /\ cpc = "check"
    /\ cpc' = "get"
    /\ UNCHANGED <<mapped, mode, args, env, data, alive, stop_flag, wpc, werr, now,
                   start_time, calibrating, calibration_msg_shown, amp_min,
                   amp_max, prev_note, filt, filtered_data, idx, idle,
                   vis_queue, buffer, events, log, produced, consumed,
                   source_acquired, device_open>>

\* `while not self.queue.empty()`: into the loop body, or out of update()
UpdateCheck ==
    /\ alive /\ cpc = "check"
    /\ cpc' = IF vis_queue = <<>> THEN "check" ELSE "get"
    /\ UNCHANGED <<mapped, mode, args, env, data, alive, stop_flag, wpc, werr, now,
                   start_time, calibrating, calibration_msg_shown, amp_min,
                   amp_max, prev_note, filt, filtered_data, idx, idle,
                   vis_queue, buffer, events, log, produced, consumed,
                   source_acquired, device_open>>

\* `value = self.queue.get_nowait(); self.buffer.append(value)`
UpdateGet ==
    /\ alive /\ cpc = "get"
    /\ IF vis_queue = <<>>
       THEN /\ cpc' = "error"
            /\ UNCHANGED <<vis_queue, buffer, consumed>>
       ELSE /\ cpc' = "check"
            /\ vis_queue' = Tail(vis_queue)
            /\ buffer' = DequeAppend(buffer, Head(vis_queue))
            /\ consumed' = Append(consumed, Head(vis_queue))
    /\ UNCHANGED <<mapped, mode, args, env, data, alive, stop_flag, wpc, werr, now,
                   start_time, calibrating, calibration_msg_shown, amp_min,
                   amp_max, prev_note, filt, filtered_data, idx, idle, events,
                   log, produced, source_acquired, device_open>>

----------------------------------------------------------------------------
(* Ctrl+C and the clock *)

\* what the end of the process does to the daemon thread
Killed(pc) == IF pc \in {"start", "loop", "play"} THEN "killed" ELSE pc

\* resp_live_play.signal_handler: set the flag, quit the GUI, sys.exit(0);
\* the worker is a daemon thread and ends with the process
SignalHandler ==
    /\ alive /\ mode = "live_play"
    /\ log' = Append(log, <<"ctrl_c">>)
    /\ stop_flag' = TRUE
    /\ alive' = FALSE
    /\ wpc' = Killed(wpc)
    /\ UNCHANGED <<mapped, mode, args, env, data, werr, now, start_time, calibrating,
                   calibration_msg_shown, amp_min, amp_max, prev_note, filt,
                   filtered_data, idx, idle, vis_queue, buffer, cpc, events,
                   produced, consumed, source_acquired, device_open>>

\* the other three scripts install no handler: SIGINT raises KeyboardInterrupt
\* in the main thread, the process ends and the daemon thread with it
Interrupt ==
    /\ alive /\ mode # "live_play"
    /\ alive' = FALSE
    /\ wpc' = Killed(wpc)
    /\ UNCHANGED <<mapped, mode, args, env, data, stop_flag, werr, now, start_time,
                   calibrating, calibration_msg_shown, amp_min, amp_max,
                   prev_note, filt, filtered_data, idx, idle, vis_queue, buffer,
                   cpc, events, log, produced, consumed, source_acquired,
                   device_open>>

\* the wall clock read by time.time() in the live scripts
Tick ==
    /\ alive /\ mode \in LiveModes
    /\ now + TickSeconds <= MaxTime
    /\ now' = now + TickSeconds
    /\ UNCHANGED <<mapped, mode, args, env, data, alive, stop_flag, wpc, werr,
                   start_time, calibrating, calibration_msg_shown, amp_min,
                   amp_max, prev_note, filt, filtered_data, idx, idle,
                   vis_queue, buffer, cpc, events, log, produced, consumed,
                   source_acquired, device_open>>

----------------------------------------------------------------------------
Next ==
    \/ LiveStart
    \/ LivePollEmpty
    \/ \E raw \in RawValues : LivePlaySample(raw)
    \/ \E raw \in RawValues : LiveModSample(raw)
    \/ PrerecStart
    \/ PrerecPlayStep
    \/ PrerecModStep
    \/ UpdateCheck
    \/ UpdateGet
    \/ SignalHandler
    \/ Interrupt
    \/ Tick

Spec == Init /\ [][Next]_vars

----------------------------------------------------------------------------
(* The MIDI device, as the receiver of `events` *)

Front(s) == SubSeq(s, 1, Len(s) - 1)
Last(s) == s[Len(s)]

RECURSIVE RemoveOne(_, _)
RemoveOne(h, n) ==
    IF h = <<>> THEN <<>>
    ELSE IF Head(h) = n THEN Tail(h)
    ELSE <<Head(h)>> \o RemoveOne(Tail(h), n)

\* the notes that are on at the device after it received evs
RECURSIVE Held(_)
Held(evs) ==
    IF evs = <<>> THEN <<>>
    ELSE LET h == Held(Front(evs))
             e == Last(evs)
         IN  IF e.type = "note_on" THEN Append(h, e.note)
             ELSE IF e.type = "note_off" THEN RemoveOne(h, e.note)
             ELSE h

Terminated == {"done", "error", "killed"}

RECURSIVE IsSubseq(_, _)
IsSubseq(s, t) ==
    IF s = <<>> THEN TRUE
    ELSE IF t = <<>> THEN FALSE
    ELSE IF Head(s) = Head(t) THEN IsSubseq(Tail(s), Tail(t))
    ELSE IsSubseq(s, Tail(t))

\* the positions of the note_on messages in evs
NoteOnAt(evs) == {i \in 1..Len(evs) : evs[i].type = "note_on"}

\* what the spec asks of a configuration: a proper note range (note modes), a
\* positive sampling rate and a cutoff below half of it
ConfigValid ==
    /\ (mode \in NoteModes => args.note_low < args.note_high)
    /\ SamplingRate > 0
    /\ 2 * args.cutoff < SamplingRate

\* the filtered value from which the k-th mapped value was computed: the
\* playback loop maps filtered_data in order; the live loop maps the samples
\* that follow the calibration-only ones (a sample whose put_nowait raised was
\* filtered but not mapped)
MappedFrom(k) ==
    IF mode \in PrerecModes THEN filtered_data[k]
    ELSE produced[Len(produced) - Len(mapped)
                  - (IF werr = "Full" THEN 1 ELSE 0) + k]

\* a range with max > min is in use by the mapper
RangeProper == amp_min # None /\ amp_max # None /\ Val(amp_max) > Val(amp_min)

----------------------------------------------------------------------------
(* Claims *)

\* C1: in a properly configured note-mode run, whenever bridge_worker has terminated (the sequence
\* exhausted, an exception, the end of the process), no note is left on at
\* the device: a termination while note N sounds was preceded by note_off(N).
\* The code sends no note_off on any termination path.
C1_NoteOffOnEveryTermination ==
    (ConfigValid /\ mode \in NoteModes /\ wpc \in Terminated) => Held(events) = <<>>

\* C2: in resp_live_play, once Ctrl+C has been handled (stop_flag set) the
\* worker does not end with a note still on: the loop sees the flag and sends
\* note_off first.  The code never reads stop_flag, and sys.exit ends the
\* daemon thread where it stands.
C2_CancellationSendsNoteOff ==
    (ConfigValid /\ mode = "live_play" /\ stop_flag /\ wpc \in Terminated)
        => Held(events) = <<>>

\* C3: a note-mode worker that ended by an exception raised in its loop (after
\* calibration) leaves no note on at the device.
C3_ErrorExitSendsNoteOff ==
    (ConfigValid /\ mode \in NoteModes /\ wpc = "error" /\ mapped # <<>>)
        => Held(events) = <<>>

\* C4: the producer's enqueue never fails: no bridge_worker of a properly
\* configured run ends with queue.Full, whatever the consumer does.
C4_EnqueueNeverFails ==
    ConfigValid => werr # "Full"

\* C5: under every interleaving the relay queue holds at most its capacity,
\* and the values the consumer took off it, followed by those still queued,
\* are, in order, a subsequence of the values the producer computed.
C5_QueueBoundedAndOrdered ==
    /\ Len(vis_queue) <= QueueMaxsize
    /\ IsSubseq(consumed \o vis_queue, produced)

C5_Witness ==
    /\ Len(vis_queue) = QueueMaxsize
    /\ werr = "Full"
    /\ Len(consumed) >= 2
    /\ \E i \in 1..Len(consumed) - 1 : consumed[i] # consumed[i + 1]

\* C6: in the live modes no MIDI message is sent while calibrating is True,
\* nor before calibration_duration seconds have passed since start_time;
\* until then every processed sample went to the relay and nowhere else.
C6_NoEventWhileCalibrating ==
    mode \in LiveModes =>
        /\ calibrating => (events = <<>> /\ mapped = <<>>)
        /\ events # <<>> => now - start_time >= calibration_duration
        /\ (calibrating /\ werr = "none") => produced = consumed \o vis_queue

C6_Witness ==
    /\ mode \in LiveModes
    /\ calibrating
    /\ Len(produced) >= 2
    /\ amp_min # amp_max
    /\ now - start_time = TickSeconds

\* C7: every note_on but the first comes directly after the note_off of the
\* note that was on, which is a different note; a note_off that is followed
\* by anything is followed by a note_on; the first message is a note_on.
C7_OffThenOn ==
    mode \in NoteModes =>
        \A i \in 1..Len(events) :
            /\ i = 1 => events[i].type = "note_on"
            /\ (events[i].type = "note_on" /\ i > 1) =>
                   /\ i >= 3
                   /\ events[i - 1].type = "note_off"
                   /\ events[i - 2].type = "note_on"
                   /\ events[i - 1].note = events[i - 2].note
                   /\ events[i - 1].note # events[i].note
            /\ (events[i].type = "note_off" /\ i < Len(events)) =>
                   events[i + 1].type = "note_on"

C7_Witness ==
    /\ mode \in NoteModes
    /\ Len(events) >= 5
    /\ events[2].type = "note_off"
    /\ events[3].type = "note_on"

\* C8: at most one note is on at the device after every prefix of the trace,
\* every note_off names the note that is on, and prev_note is that note
\* (None exactly when no note is on).
C8_AtMostOneNoteOn ==
    mode \in NoteModes =>
        /\ \A k \in 0..Len(events) :
               LET h == Held(SubSeq(events, 1, k))
               IN  /\ Len(h) <= 1
                   /\ Cardinality(NoteOnAt(SubSeq(events, 1, k))) - Len(h)
                          = Cardinality({i \in 1..k : events[i].type = "note_off"})
        /\ \A k \in 1..Len(events) :
               events[k].type = "note_off" =>
                   Held(SubSeq(events, 1, k - 1)) = <<events[k].note>>
        /\ prev_note = Held(events)

C8_Witness ==
    /\ mode \in NoteModes
    /\ Len(events) >= 3
    /\ prev_note # None
    /\ Val(prev_note) = Last(events).note

\* C9: a mapped note equal to the sounding one sends nothing: two successive
\* note_on messages never carry the same note, there are as many note_on
\* messages as the mapped notes have runs, and the mapped notes
\* [40, 40, 41, 41, 40] give exactly on(40), off(40), on(41), off(41), on(40).
C9_NoRetrigger ==
    mode \in NoteModes =>
        /\ \A i, j \in NoteOnAt(events) :
               (i < j /\ \A k \in NoteOnAt(events) : ~(i < k /\ k < j)) =>
                   events[i].note # events[j].note
        /\ Cardinality(NoteOnAt(events)) =
               Cardinality({i \in 1..Len(mapped) : i = 1 \/ mapped[i] # mapped[i - 1]})
        /\ mapped = <<40, 40, 41, 41, 40>> =>
               events = <<NoteOn(40, args.velocity), NoteOff(40),
                          NoteOn(41, args.velocity), NoteOff(41),
                          NoteOn(40, args.velocity)>>

C9_Witness ==
    /\ mode \in NoteModes
    /\ mapped = <<40, 40, 41, 41, 40>>

\* C10: a run whose configuration is invalid (note_low >= note_high, or
\* sampling_rate <= 0, or cutoff >= 0.5 * sampling_rate) acquires no source,
\* opens no device, enqueues nothing and sends nothing.  The code never
\* checks the note range, and meets a bad cutoff only after the source.
C10_InvalidConfigDoesNothing ==
    ~ConfigValid =>
        /\ ~source_acquired
        /\ ~device_open
        /\ vis_queue = <<>> /\ consumed = <<>>
        /\ events = <<>>

\* C11: when no stream named RESP is resolved (live modes) or the MIDI port
\* cannot be opened (any mode), bridge_worker never reaches its loop and ends
\* with an error (the logged "no streams" error, or RuntimeError); such a run
\* sends nothing to the device and puts nothing on vis_queue.
C11_FailFastWithoutEmission ==
    LET no_source == mode \in LiveModes /\ env.streams = 0
        no_port == ~env.port_ok
    IN  (no_source \/ no_port) =>
            /\ events = <<>>
            /\ vis_queue = <<>> /\ consumed = <<>> /\ buffer = <<>>
            /\ ~device_open
            /\ wpc \in {"start", "done", "error", "killed"}
            /\ wpc = "done" => no_source /\ log # <<>> /\ log[1] = <<"no_streams">>
            /\ wpc = "error" => no_port /\ werr = "RuntimeError"

C11_Witness ==
    /\ ~env.port_ok /\ wpc = "error" /\ werr = "RuntimeError"
    /\ cpc = "check" /\ events = <<>>

\* C12: with a range max > min, every note map_amp_to_note returned lies in
\* [note_low, note_high], and of two mapped samples the one with the larger
\* amplitude has the note that is not lower.  The code accepts note_low >
\* note_high (C10) and then maps downwards, outside the empty interval.
C12_NoteInRangeAndMonotone ==
    (mode \in NoteModes /\ RangeProper) =>
        /\ \A i \in DOMAIN mapped :
               args.note_low <= mapped[i] /\ mapped[i] <= args.note_high
        /\ \A i, j \in DOMAIN mapped :
               MappedFrom(i) <= MappedFrom(j) => mapped[i] <= mapped[j]

\* C13: with a range max <= min the mappers return their default for every
\* amplitude, note_low for map_amp_to_note and 0 for map_amp_to_cc, and the
\* run does not end in a division by zero.
C13_DegenerateRangeFallback ==
    (amp_min # None /\ amp_max # None /\ Val(amp_max) <= Val(amp_min)) =>
        /\ \A i \in DOMAIN mapped :
               mapped[i] = IF mode \in NoteModes THEN args.note_low ELSE 0
        /\ werr # "ZeroDivisionError"

C13_Witness ==
    /\ mode = "live_play"
    /\ amp_min # None /\ amp_max = amp_min
    /\ Len(mapped) >= 3
    /\ \E i, j \in DOMAIN mapped :
           MappedFrom(i) < Val(amp_min) /\ MappedFrom(j) > Val(amp_min)

\* the interpolated value of the k-th mapping, before rounding, as the
\* fraction InterpP(k) / InterpQ
InterpQ == Val(amp_max) - Val(amp_min)

InterpP(k) ==
    LET num == Clip(MappedFrom(k) - Val(amp_min), 0, InterpQ)
    IN  IF mode \in NoteModes
        THEN args.note_low * InterpQ + num * (args.note_high - args.note_low)
        ELSE num * CCMax

IsTie(k) == 2 * (InterpP(k) % InterpQ) = InterpQ

\* C14: the mappers round to the nearest integer, a tie upwards: when the
\* interpolated value lies halfway between k and k + 1 the result is k + 1.
\* round() in the code takes a tie to the even neighbour: 40.5 gives 40.
C14_TiesRoundHalfUp ==
    RangeProper =>
        \A k \in DOMAIN mapped :
            IsTie(k) => mapped[k] = (InterpP(k) \div InterpQ) + 1

\* C14: the mappers round to the nearest integer, and when the interpolated
\* value lies halfway between k and k + 1 the result is the even one of the
\* two.
C14_TiesRoundHalfEven ==
    RangeProper =>
        \A k \in DOMAIN mapped :
            LET f == InterpP(k) \div InterpQ
                d == mapped[k] * InterpQ - InterpP(k)
            IN  /\ -InterpQ <= 2 * d /\ 2 * d <= InterpQ
                /\ IsTie(k) => mapped[k] \in {f, f + 1} /\ mapped[k] % 2 = 0

C14_Witness ==
    /\ RangeProper
    /\ \E k \in DOMAIN mapped :
           IsTie(k) /\ mapped[k] = InterpP(k) \div InterpQ

\* C15: with a range max > min, map_amp_to_note returns note_low for the
\* amplitude range.min and note_high for the amplitude range.max.
C15_BoundaryExact ==
    (mode \in NoteModes /\ RangeProper) =>
        \A k \in DOMAIN mapped :
            /\ MappedFrom(k) = Val(amp_min) => mapped[k] = args.note_low
            /\ MappedFrom(k) = Val(amp_max) => mapped[k] = args.note_high

C15_Witness ==
    /\ mode \in NoteModes /\ RangeProper
    /\ args.note_low = DefaultNoteLow /\ args.note_high = DefaultNoteHigh
    /\ \E i, j \in DOMAIN mapped :
           /\ MappedFrom(i) = Val(amp_min) /\ mapped[i] = DefaultNoteLow
           /\ MappedFrom(j) = Val(amp_max) /\ mapped[j] = DefaultNoteHigh

\* the messages the note branch sends for the notes of a whole sequence,
\* starting with prev_note = prev
RECURSIVE NoteEvents(_, _, _)
NoteEvents(prev, notes, velocity) ==
    IF notes = <<>> THEN <<>>
    ELSE LET st == NoteStep(prev, Head(notes), velocity)
         IN  st.out \o NoteEvents(st.prev_note, Tail(notes), velocity)

\* what bridge_worker of the prerecorded scripts computes from file contents d
\* alone: the filtered sequence, its range, and the messages of a playback
\* that runs through the sequence
PlaybackOf(d) ==
    LET fd == FilterAll(RespFilterInit(args.sampling_rate, args.cutoff), d)
        lo == SeqMin(fd)
        hi == SeqMax(fd)
    IN  [amp_min |-> lo, amp_max |-> hi,
         events |->
            IF mode = "prerec_play"
            THEN NoteEvents(None,
                     [k \in DOMAIN fd |->
                         map_amp_to_note(fd[k], lo, hi,
                                         args.note_low, args.note_high)],
                     args.velocity)
            ELSE [k \in DOMAIN fd |->
                     ControlChange(args.cc, map_amp_to_cc(fd[k], lo, hi),
                                   args.channel_midi)]]

\* C16: a prerecorded run that started playback and ended by itself has the
\* range and the device messages that its file and configuration determine,
\* whatever the consumer did meanwhile: two such runs on the same input agree.
\* A consumer that falls behind makes put_nowait raise (C4), and the run ends
\* with a prefix of those messages.
C16_PrerecDeterministic ==
    (mode \in PrerecModes /\ wpc \in {"done", "error"} /\ filtered_data # <<>>) =>
        /\ amp_min = Some(PlaybackOf(data).amp_min)
        /\ amp_max = Some(PlaybackOf(data).amp_max)
        /\ events = PlaybackOf(data).events

Abs(v) == IF v < 0 THEN -v ELSE v

\* the live run so far has read the raw value c in every sample
ConstantInput(c) ==
    /\ mode \in LiveModes /\ filt # None /\ produced # <<>>
    /\ produced = FilterAll(RespFilterInit(SamplingRate, args.cutoff),
                            [i \in DOMAIN produced |-> c])

CCPassDone ==
    \/ mode = "prerec_mod" /\ idx' = idx + 1
    \/ /\ mode = "live_mod" /\ ~calibrating
       /\ Len(produced') = Len(produced) + 1 /\ werr' = "none"

\* C18: the controller scripts send every mapped value: the messages at the
\* device are the control_change messages of the mapped values, in order, each
\* with a value in 0..127, none of them a note message, and every pass of
\* the loop through a sample (after calibration, in the live script) adds
\* exactly one message, also when its value equals the last one sent.
C18_EveryMappedValueSent ==
    /\ [](mode \in {"live_mod", "prerec_mod"} =>
            /\ Len(events) = Len(mapped)
            /\ \A k \in DOMAIN events :
                   /\ events[k] = ControlChange(args.cc, mapped[k],
                                                args.channel_midi)
                   /\ mapped[k] \in 0..CCMax)
    /\ [][CCPassDone =>
            /\ Len(events') = Len(events) + 1
            /\ Len(mapped') = Len(mapped) + 1
            /\ SubSeq(events', 1, Len(events)) = events]_vars

C18_Witness ==
    /\ mode \in {"live_mod", "prerec_mod"}
    /\ \E k \in DOMAIN events :
           /\ k > 1 /\ events[k] = events[k - 1]
           /\ \E j \in DOMAIN events : events[j].value # events[k].value

\* the "calibration complete" lines of the log
CompleteLogged == {i \in DOMAIN log : log[i][1] = "complete"}

\* C19: in the live scripts calibrating goes from TRUE to FALSE once and stays
\* FALSE ("calibration complete" is logged exactly then), and from then on no
\* step changes amp_min or amp_max.
C19_CalibrationCompletesOnce ==
    /\ [](mode \in LiveModes =>
            Cardinality(CompleteLogged) = IF calibrating THEN 0 ELSE 1)
    /\ [][(mode \in LiveModes /\ ~calibrating) =>
            /\ ~calibrating'
            /\ amp_min' = amp_min /\ amp_max' = amp_max]_vars

C19_Witness ==
    /\ mode \in LiveModes /\ ~calibrating /\ RangeProper
    /\ \E i, j \in DOMAIN mapped :
           MappedFrom(i) < Val(amp_min) /\ MappedFrom(j) > Val(amp_max)

\* the filtered values the calibration branch has seen: resp_live_mod queues
\* a sample before the branch, so a sample whose put_nowait raised is not one
Observed ==
    IF mode = "live_mod" /\ werr = "Full" THEN Front(produced) ELSE produced

\* a pass of the live loop takes a sample into the calibration branch
ObservePass ==
    /\ mode \in LiveModes /\ calibrating
    /\ Len(produced') = Len(produced) + 1
    /\ ~(mode = "live_mod" /\ werr' = "Full")

\* C20: while the live calibration runs, the range is the running minimum and
\* maximum of the filtered values seen: none before the first value, both
\* equal to the first value after it, amp_min <= every value seen <= amp_max;
\* each further value can only lower amp_min and raise amp_max; and a range
\* that is set has amp_min <= amp_max.
C20_RunningMinMax ==
    /\ [](mode \in LiveModes =>
            /\ amp_min # None => amp_max # None /\ Val(amp_min) <= Val(amp_max)
            /\ calibrating =>
                   IF Observed = <<>> THEN amp_min = None /\ amp_max = None
                   ELSE /\ amp_min = Some(SeqMin(Observed))
                        /\ amp_max = Some(SeqMax(Observed))
                        /\ \A i \in DOMAIN Observed :
                               /\ Val(amp_min) <= Observed[i]
                               /\ Observed[i] <= Val(amp_max))
    /\ [][ObservePass =>
            LET v == Last(produced')
            IN  IF amp_min = None
                THEN amp_min' = Some(v) /\ amp_max' = Some(v)
                ELSE /\ Val(amp_min') = Min2(Val(amp_min), v)
                     /\ Val(amp_max') = Max2(Val(amp_max), v)
                     /\ Val(amp_min') <= Val(amp_min)
                     /\ Val(amp_max') >= Val(amp_max)]_vars

C20_Witness ==
    /\ mode \in LiveModes /\ calibrating
    /\ Len(Observed) >= 3
    /\ Val(amp_min) = Observed[1]
    /\ Val(amp_min) < Last(Observed) /\ Last(Observed) < Val(amp_max)

\* C21: in the prerecorded scripts nothing is queued or sent while the range
\* is not set; the range is set once ("calibration complete" is logged once),
\* to the least and the greatest value of the whole filtered file, and no
\* later step changes it; every playback value lies within it and every
\* mapped value was computed with it.
C21_BatchRangeOnceBeforePlayback ==
    /\ [](mode \in PrerecModes =>
            /\ amp_min = None =>
                   /\ amp_max = None /\ CompleteLogged = {}
                   /\ events = <<>> /\ mapped = <<>>
                   /\ vis_queue = <<>> /\ consumed = <<>>
            /\ amp_min # None =>
                   /\ amp_max # None /\ Cardinality(CompleteLogged) = 1
                   /\ Len(filtered_data) = Len(data)
                   /\ \A k \in DOMAIN filtered_data :
                          /\ Val(amp_min) <= filtered_data[k]
                          /\ filtered_data[k] <= Val(amp_max)
                   /\ \E k \in DOMAIN filtered_data :
                          filtered_data[k] = Val(amp_min)
                   /\ \E k \in DOMAIN filtered_data :
                          filtered_data[k] = Val(amp_max)
                   /\ \A k \in DOMAIN mapped :
                          mapped[k] =
                              IF mode = "prerec_play"
                              THEN map_amp_to_note(filtered_data[k],
                                       Val(amp_min), Val(amp_max),
                                       args.note_low, args.note_high)
                              ELSE map_amp_to_cc(filtered_data[k],
                                       Val(amp_min), Val(amp_max)))
    /\ [][(mode \in PrerecModes /\ amp_min # None) =>
            amp_min' = amp_min /\ amp_max' = amp_max]_vars

C21_Witness ==
    /\ mode \in PrerecModes /\ wpc = "done"
    /\ Len(filtered_data) >= 4 /\ Len(mapped) = Len(filtered_data)
    /\ Val(amp_min) < filtered_data[1] /\ filtered_data[1] < Val(amp_max)
    /\ Val(amp_min) < Last(filtered_data) /\ Last(filtered_data) < Val(amp_max)

\* C22: an empty poll of the live inlet is not an error.  The step that counts
\* one leaves the filter, the calibration flag and range, prev_note, vis_queue,
\* the device messages and the log as they were and the worker in its loop;
\* after any number of empty polls a worker that was not interrupted is still
\* in the loop, without an exception, ready to poll again.
C22_EmptyPollRetried ==
    /\ [][idle' > idle =>
            /\ filt' = filt
            /\ calibrating' = calibrating
            /\ calibration_msg_shown' = calibration_msg_shown
            /\ amp_min' = amp_min /\ amp_max' = amp_max
            /\ prev_note' = prev_note
            /\ vis_queue' = vis_queue /\ produced' = produced
            /\ events' = events /\ mapped' = mapped /\ log' = log
            /\ wpc' = "loop" /\ werr' = "none" /\ alive']_vars
    /\ []((idle > 0 /\ alive) =>
            /\ mode \in LiveModes
            /\ wpc = "loop" /\ werr = "none"
            /\ ENABLED LivePollEmpty)

C22_Witness ==
    /\ mode = "live_play" /\ alive /\ wpc = "loop"
    /\ idle = MaxIdle
    /\ ~calibrating /\ prev_note # None
    /\ Len(vis_queue) = QueueMaxsize

\* the "calibrating" lines of the log
CalibratingLogged == {i \in DOMAIN log : log[i][1] = "calibrating"}

\* C23: in the live scripts each of the two calibration notices is logged at
\* most once; "calibrating" is there from the first sample the calibration
\* branch sees, "complete" exactly when calibration is over, after
\* "calibrating" and with the values of amp_min and amp_max; no device message
\* precedes the pass that logs "complete", and none exists without it.
C23_CalibrationNoticesOnce ==
    /\ [](mode \in LiveModes =>
            /\ Cardinality(CalibratingLogged) = IF Observed = <<>> THEN 0 ELSE 1
            /\ Cardinality(CompleteLogged) = IF calibrating THEN 0 ELSE 1
            /\ \A i \in CalibratingLogged : \A j \in CompleteLogged :
                   /\ i < j
                   /\ log[j] = <<"complete", Val(amp_min), Val(amp_max)>>
            /\ events # <<>> => CompleteLogged # {})
    /\ [][(mode \in LiveModes /\ CompleteLogged' # CompleteLogged) =>
            events = <<>>]_vars

C23_Witness ==
    /\ mode \in LiveModes /\ ~calibrating
    /\ Len(events) >= 2
    /\ Len(produced) - Len(mapped) >= 2
    /\ Cardinality(CalibratingLogged) = 1 /\ Cardinality(CompleteLogged) = 1

\* the last n items of s (all of s when it has fewer)
LastN(s, n) == SubSeq(s, Max2(1, Len(s) - n + 1), Len(s))

\* C24: RespVisualiser.update never meets queue.Empty: between its test of
\* queue.empty() and its get_nowait() the queue cannot lose an item, whatever
\* the worker does meanwhile; and the buffer holds the values taken from the
\* queue, each once and in order, cut to the newest buffer_len of them.
C24_DrainNeverEmptyBufferBounded ==
    /\ cpc # "error"
    /\ cpc = "get" => vis_queue # <<>>
    /\ Len(buffer) <= BufferLen
    /\ buffer = LastN(consumed, BufferLen)

C24_Witness ==
    /\ cpc = "get"
    /\ Len(consumed) > BufferLen
    /\ Len(buffer) = BufferLen
    /\ Len(vis_queue) >= 1
    /\ buffer[1] # consumed[1]

\* C25: in the live scripts the mappers never get a range that is not set:
\* whenever calibrating is FALSE, and whenever a value has been mapped, amp_min
\* and amp_max are values the calibration branch has seen; a first sample
\* that arrives after the window sets both to itself in the pass that ends
\* the calibration.
C25_RangeSetBeforeMapping ==
    /\ [](mode \in LiveModes =>
            /\ (~calibrating \/ mapped # <<>>) =>
                   /\ amp_min # None /\ amp_max # None
                   /\ \E k \in DOMAIN Observed : Observed[k] = Val(amp_min)
                   /\ \E k \in DOMAIN Observed : Observed[k] = Val(amp_max)
            /\ mapped # <<>> => ~calibrating)
    /\ [][(mode \in LiveModes /\ produced = <<>> /\ ~calibrating') =>
            /\ produced' # <<>>
            /\ amp_min' = Some(produced'[1])
            /\ amp_max' = Some(produced'[1])]_vars

C25_Witness ==
    /\ mode \in LiveModes /\ ~calibrating
    /\ start_time + calibration_duration <= now
    /\ Len(produced) >= 2 /\ mapped # <<>>
    /\ amp_min = Some(produced[1]) /\ amp_max = Some(produced[1])
    /\ \E k \in DOMAIN mapped : MappedFrom(k) # produced[1]

====
